---- MODULE Spec2Model ----
(***************************************************************************)
(* A model of sendgrid-cli (cmd/root.go, latest revision: the one with     *)
(* sendV2).  One run of the command `send` is a sequence of steps, each    *)
(* either going on or ending the process by log.Fatal.                     *)
(*                                                                         *)
(* Text that the code inspects character by character (addresses, bodies,  *)
(* --sub values) is a sequence of one-character strings; values of which   *)
(* only emptiness or identity matters (subject, key, file names) are       *)
(* TLA+ strings.                                                           *)
(***************************************************************************)
EXTENDS Integers, Sequences, FiniteSets, TLC

VARIABLES
    pc,            \* position in send, or "done", "fatal", "panic"
    flags,         \* the positional arguments and the flags read so far
    loc,           \* send's local variables
    message,       \* the *mail.SGMailV3 being built
    net,           \* the network: path taken, calls made, what the call gave
    exit,          \* the process exit status, -1 while it runs
    err,           \* the kind of the error that ended the run, "" if none
    raw,           \* createAddress: the argument of the call under study
    email          \* createAddress: what that call returned

vars == <<pc, flags, loc, message, net, exit, err, raw, email>>

----------------------------------------------------------------------------
(* Bounds *)

\* longest raw address string handed to createAddress on its own
MaxLen == 7
\* most --to values, most --cc values, most positional arguments of a run
MaxTo == 2
MaxCc == 1
MaxArgs == 3

----------------------------------------------------------------------------
(* strings *)

SP == " "
LT == "<"
GT == ">"
TAB == "\t"

\* the characters raw address strings are made of
Alphabet == {"a", SP, LT, GT, TAB}

\* every string of at most n characters
StringsUpTo(n) == UNION {[1..k -> Alphabet] : k \in 0..n}

\* strings.Index(s, " <"): the first position of the separator, 0 if none
IndexSep(s) ==
    LET hits == {i \in 1..(Len(s) - 1) : s[i] = SP /\ s[i + 1] = LT}
    IN  IF hits = {} THEN 0 ELSE CHOOSE i \in hits : \A j \in hits : i <= j

\* strings.Split(s, " <"): the pieces between the separators, left to right;
\* a string without the separator (the empty one too) gives one piece
RECURSIVE SplitSep(_)
SplitSep(s) ==
    LET i == IndexSep(s)
    IN  IF i = 0 THEN <<s>>
        ELSE <<SubSeq(s, 1, i - 1)>> \o SplitSep(SubSeq(s, i + 2, Len(s)))

\* the cutset of strings.Trim(p, " ><")
Cutset == {SP, GT, LT}

RECURSIVE TrimLeft(_)
TrimLeft(s) ==
    IF s # <<>> /\ Head(s) \in Cutset THEN TrimLeft(Tail(s)) ELSE s

RECURSIVE TrimRight(_)
TrimRight(s) ==
    IF s # <<>> /\ s[Len(s)] \in Cutset
    THEN TrimRight(SubSeq(s, 1, Len(s) - 1)) ELSE s

\* a Trim that forgets the right end
Trim_LeftOnly(s) == TrimLeft(s)

\* strings.Trim(s, " ><")
Trim(s) == TrimRight(TrimLeft(s))

----------------------------------------------------------------------------
(* createAddress *)

\* mail.NewEmail(name, address); nil marks a nil *mail.Email
NewEmail(name, address) == [nil |-> FALSE, Name |-> name, Address |-> address]

NilEmail == [nil |-> TRUE, Name |-> <<>>, Address |-> <<>>]

\* what a call returns: log.Fatal or an Email
Fatal(kind) == [fatal |-> TRUE, err |-> kind, email |-> NilEmail]
Return(e) == [fatal |-> FALSE, err |-> "", email |-> e]

\* the check made on the split pieces before they are trimmed
PartsRejected(parts) == Len(parts) = 0 \/ parts[1] = <<>>

\* an EmailOfParts that takes the last piece, not the second, as the address
EmailOfParts_LastPart(parts) == NewEmail(parts[1], parts[Len(parts)])

\* the name and the address taken from the trimmed pieces
EmailOfParts(parts) ==
    IF Len(parts) < 2 THEN NewEmail(parts[1], parts[1])
    ELSE NewEmail(parts[1], parts[2])

createAddress(r) ==
    IF r = <<>> THEN Fatal("MissingAddress")
    ELSE LET parts == SplitSep(r)
         IN  IF PartsRejected(parts) THEN Fatal("InvalidAddress")
             ELSE Return(EmailOfParts([i \in 1..Len(parts) |-> Trim(parts[i])]))

----------------------------------------------------------------------------------------------------------------------------------------
(* files *)

HtmlFileText == <<"<", "p", ">", "y", "<", "/", "p", ">">>
PlainFileText == <<"t">>

\* the files that exist and what they hold; any other name cannot be read
Files ==
    [name \in {"body.html", "body.txt", "empty.html", "a.pdf", "b.bin"} |->
        CASE name = "body.html" -> HtmlFileText
          [] name = "body.txt" -> PlainFileText
          [] name = "empty.html" -> <<>>
          [] name = "a.pdf" -> <<37, 80, 68, 70>>
          [] OTHER -> <<0, 255>>]

\* ioutil.ReadFile(filename): the content, or an error
ReadFile(filename) ==
    IF filename \in DOMAIN Files
    THEN [fatal |-> FALSE, text |-> Files[filename]]
    ELSE [fatal |-> TRUE, text |-> <<>>]

----------------------------------------------------------------------------
(* message bodies *)

\* the characters \w of the regular expression that occur in the model
WordChars == {"a", "b", "c", "f", "h", "i", "k", "p", "t", "v", "x", "y",
              "B", "C", "D", "F", "e", "m", "n", "o", "u"}

\* regexp.MatchString("\\<[\\w]{1,}[^>]*\\>", b): somewhere in b a '<', a word
\* character, then characters other than '>', then '>'
LooksLikeHTML(b) ==
    \E i \in 1..Len(b) : \E j \in (i + 2)..Len(b) :
        /\ b[i] = "<"
        /\ b[i + 1] \in WordChars
        /\ b[j] = ">"
        /\ \A k \in (i + 2)..(j - 1) : b[k] # ">"

\* the text of s outside its tags
RECURSIVE StripTags(_, _)
StripTags(s, inTag) ==
    IF s = <<>> THEN <<>>
    ELSE IF inTag
         THEN StripTags(Tail(s), Head(s) # ">")
         ELSE IF Head(s) = "<" THEN StripTags(Tail(s), TRUE)
              ELSE <<Head(s)>> \o StripTags(Tail(s), FALSE)

RECURSIVE TrimSpaceLeft(_)
TrimSpaceLeft(s) ==
    IF s # <<>> /\ Head(s) \in {" ", "\t"} THEN TrimSpaceLeft(Tail(s)) ELSE s

RECURSIVE TrimSpaceRight(_)
TrimSpaceRight(s) ==
    IF s # <<>> /\ s[Len(s)] \in {" ", "\t"}
    THEN TrimSpaceRight(SubSeq(s, 1, Len(s) - 1)) ELSE s

\* html2text.FromString(s, Options{PrettyTables: true}), for the documents of
\* the model (paragraphs of plain words): the text without the tags and
\* without surrounding blanks.  The library's rendering of other elements
\* (links, emphasis, tables) is outside the model.
html2text(s) == TrimSpaceRight(TrimSpaceLeft(StripTags(s, FALSE)))

\* the positions of args that look like HTML
HtmlPositions(args) == {i \in 1..Len(args) : LooksLikeHTML(args[i])}

\* messageBodies(args): log.Fatal, or (htmlBody, plainBody)
Bodies(h, p) == [fatal |-> FALSE, html |-> h, plain |-> p]
NoBodies == [fatal |-> TRUE, html |-> <<>>, plain |-> <<>>]

\* a messageBodies that takes its first argument as the HTML body without
\* testing it
messageBodies_AnyAsHtml(args) ==
    IF Len(args) = 0 THEN NoBodies
    ELSE IF args[1] = <<>> THEN NoBodies
         ELSE Bodies(args[1], <<>>)

\* a messageBodies that falls back on the second argument when the first is
\* empty
messageBodies_SecondPlain(args) ==
    IF Len(args) = 0 THEN NoBodies
    ELSE IF HtmlPositions(args) # {}
         THEN LET i == CHOOSE k \in HtmlPositions(args) :
                           \A m \in HtmlPositions(args) : k <= m
              IN  IF Len(args) = 1 THEN Bodies(args[i], html2text(args[i]))
                  ELSE Bodies(args[i], args[3 - i])
         ELSE IF args[1] # <<>> THEN Bodies(<<>>, args[1])
              ELSE IF Len(args) = 2 /\ args[2] # <<>> THEN Bodies(<<>>, args[2])
                   ELSE NoBodies

\* a messageBodies that takes the last argument that looks like HTML
messageBodies_LastMatch(args) ==
    IF Len(args) = 0 THEN NoBodies
    ELSE IF HtmlPositions(args) # {}
         THEN LET i == CHOOSE k \in HtmlPositions(args) :
                           \A m \in HtmlPositions(args) : m <= k
              IN  IF Len(args) = 1 THEN Bodies(args[i], html2text(args[i]))
                  ELSE Bodies(args[i], args[3 - i])
         ELSE IF args[1] = <<>> THEN NoBodies
              ELSE Bodies(<<>>, args[1])

messageBodies(args) ==
    IF Len(args) = 0 THEN NoBodies
    ELSE IF HtmlPositions(args) # {}
         THEN LET i == CHOOSE k \in HtmlPositions(args) :
                           \A m \in HtmlPositions(args) : k <= m
              IN  IF Len(args) = 1 THEN Bodies(args[i], html2text(args[i]))
                  ELSE IF i = 1 /\ args[2] # <<>> THEN Bodies(args[i], args[2])
                  ELSE IF i = 2 /\ args[1] # <<>> THEN Bodies(args[i], args[1])
                  ELSE Bodies(args[i], <<>>)
         ELSE IF args[1] = <<>> THEN NoBodies
              ELSE Bodies(<<>>, args[1])

\* send, the --html / --plain branch: readFile of each file given, the plain
\* text converted from the HTML when no --plain file is given
BodiesFromFiles(htmlFilename, plainTextFilename) ==
    LET h == IF htmlFilename # "" THEN ReadFile(htmlFilename)
             ELSE [fatal |-> FALSE, text |-> <<>>]
        p == IF plainTextFilename # "" THEN ReadFile(plainTextFilename)
             ELSE [fatal |-> FALSE, text |-> html2text(h.text)]
    IN  IF h.fatal \/ p.fatal THEN NoBodies ELSE Bodies(h.text, p.text)

DummyContent == <<"<", "!", "-", "-", " ", "D", "u", "m", "m", "y", " ",
                  "C", "o", "n", "t", "e", "n", "t", " ", "-", "-", ">">>

\* a send that looks at the positional arguments before the body files
ChooseBodies_ArgsFirst(args, htmlFilename, plainTextFilename, templateID) ==
    IF Len(args) > 0 THEN messageBodies(args)
    ELSE IF htmlFilename # "" \/ plainTextFilename # ""
         THEN BodiesFromFiles(htmlFilename, plainTextFilename)
         ELSE IF templateID = "" THEN messageBodies(args)
              ELSE Bodies(DummyContent, <<>>)

\* a send that puts the placeholder in place of arguments without content
ChooseBodies_EmptyArgs(args, htmlFilename, plainTextFilename, templateID) ==
    IF htmlFilename # "" \/ plainTextFilename # ""
    THEN BodiesFromFiles(htmlFilename, plainTextFilename)
    ELSE IF templateID = "" THEN messageBodies(args)
         ELSE IF Len(args) > 0 /\ ~messageBodies(args).fatal
              THEN messageBodies(args)
              ELSE Bodies(DummyContent, <<>>)

\* a send that puts the placeholder whenever a template id is given without
\* body files
ChooseBodies_TemplateFirst(args, htmlFilename, plainTextFilename, templateID) ==
    IF htmlFilename # "" \/ plainTextFilename # ""
    THEN BodiesFromFiles(htmlFilename, plainTextFilename)
    ELSE IF templateID = "" THEN messageBodies(args)
         ELSE Bodies(DummyContent, <<>>)

\* send's choice of the bodies: files first, then the positional arguments
\* (always without a template id, and with one when there are arguments),
\* else the placeholder
ChooseBodies(args, htmlFilename, plainTextFilename, templateID) ==
    IF htmlFilename # "" \/ plainTextFilename # ""
    THEN BodiesFromFiles(htmlFilename, plainTextFilename)
    ELSE IF templateID = "" \/ Len(args) > 0
         THEN messageBodies(args)
         ELSE Bodies(DummyContent, <<>>)

\* the error that ends the run when ChooseBodies is fatal
BodyError(htmlFilename, plainTextFilename) ==
    IF htmlFilename # "" \/ plainTextFilename # "" THEN "FileRead"
    ELSE "MissingBody"

----------------------------------------------------------------------------
(* the message *)

NoMessage ==
    [built |-> FALSE, From |-> NilEmail, Subject |-> "",
     Personalizations |-> <<>>, Content |-> <<>>, Attachments |-> <<>>,
     TemplateID |-> ""]

\* mail.NewContent(type, value)
NewContent(type, value) == [Type |-> type, Value |-> value]

\* mail.NewSingleEmail(from, subject, to, plainTextContent, htmlContent): one
\* personalization holding to, and the two contents, plain first
NewSingleEmail(from, subject, to, plainTextContent, htmlContent) ==
    [built |-> TRUE, From |-> from, Subject |-> subject,
     Personalizations |-> <<[To |-> <<to>>, CC |-> <<>>, Substitutions |-> <<>>]>>,
     Content |-> <<NewContent("text/plain", plainTextContent),
                   NewContent("text/html", htmlContent)>>,
     Attachments |-> <<>>, TemplateID |-> ""]

\* message.Personalizations[0].AddTos(toAddresses[1:]...), when there are any
AddMoreTos(m, toAddresses) ==
    IF Len(toAddresses) > 1
    THEN [m EXCEPT !.Personalizations[1].To = @ \o Tail(toAddresses)]
    ELSE m

\* message.Personalizations[0].AddCCs(ccAddresses...), when there are any
AddCCs(m, ccAddresses) ==
    IF Len(ccAddresses) > 0
    THEN [m EXCEPT !.Personalizations[1].CC = @ \o ccAddresses]
    ELSE m

\* the slice send hands to AddCCs: make([]*mail.Email, len(ccAddressesRaw)),
\* which the loop after it never fills (it ranges over toAddressesRaw and
\* assigns toAddresses again)
MakeCcAddresses(ccAddressesRaw) == [i \in 1..Len(ccAddressesRaw) |-> NilEmail]

\* the loops over toAddressesRaw: createAddress of each, the first log.Fatal
\* ending the run
ParseAll(raws) ==
    LET res == [i \in 1..Len(raws) |-> createAddress(raws[i])]
        bad == {i \in 1..Len(raws) : res[i].fatal}
    IN  IF bad = {}
        THEN [fatal |-> FALSE, err |-> "",
              emails |-> [i \in 1..Len(raws) |-> res[i].email]]
        ELSE [fatal |-> TRUE,
              err |-> res[CHOOSE i \in bad : \A j \in bad : i <= j].err,
              emails |-> <<>>]

\* base64.StdEncoding.EncodeToString(b): the 6-bit digits of each group of
\* three bytes, 64 standing for the padding '='
RECURSIVE Base64(_)
Base64(b) ==
    IF Len(b) = 0 THEN <<>>
    ELSE IF Len(b) = 1
         THEN <<b[1] \div 4, (b[1] % 4) * 16, 64, 64>>
    ELSE IF Len(b) = 2
         THEN <<b[1] \div 4, (b[1] % 4) * 16 + b[2] \div 16, (b[2] % 16) * 4, 64>>
    ELSE <<b[1] \div 4, (b[1] % 4) * 16 + b[2] \div 16,
           (b[2] % 16) * 4 + b[3] \div 64, b[3] % 64>>
         \o Base64(SubSeq(b, 4, Len(b)))

\* the types mime.TypeByExtension knows, by extension
MimeTypes ==
    [ext \in {".pdf", ".html"} |->
        IF ext = ".pdf" THEN "application/pdf" ELSE "text/html; charset=utf-8"]

\* mime.TypeByExtension(x): send passes the whole file name as x
TypeByExtension(x) == IF x \in DOMAIN MimeTypes THEN MimeTypes[x] ELSE ""

\* the attachment send builds from one --att value whose file it has read
NewAttachment(attFilename, b) ==
    [Type |-> TypeByExtension(attFilename), Disposition |-> "attachment",
     Filename |-> attFilename, Content |-> Base64(b)]

\* the loop over --att: the files in flag order, the first unreadable one
\* ending the run
RECURSIVE AddAttachments(_, _)
AddAttachments(m, filenames) ==
    IF filenames = <<>> THEN [fatal |-> FALSE, m |-> m]
    ELSE LET f == ReadFile(Head(filenames))
         IN  IF f.fatal THEN [fatal |-> TRUE, m |-> m]
             ELSE AddAttachments(
                    [m EXCEPT !.Attachments =
                        Append(@, NewAttachment(Head(filenames), f.text))],
                    Tail(filenames))

\* a split at the last '=' in place of the first
SplitN2_LastEq(sub) ==
    LET eq == {i \in 1..Len(sub) : sub[i] = "="}
    IN  IF eq = {} THEN <<sub>>
        ELSE LET i == CHOOSE k \in eq : \A j \in eq : j <= k
             IN  <<SubSeq(sub, 1, i - 1), SubSeq(sub, i + 1, Len(sub))>>

\* strings.SplitN(sub, "=", 2): cut at the first '='
SplitN2(sub) ==
    LET eq == {i \in 1..Len(sub) : sub[i] = "="}
    IN  IF eq = {} THEN <<sub>>
        ELSE LET i == CHOOSE k \in eq : \A j \in eq : k <= j
             IN  <<SubSeq(sub, 1, i - 1), SubSeq(sub, i + 1, Len(sub))>>

\* "[%" + key + "%]"
Placeholder(key) == <<"[", "%">> \o key \o <<"%", "]">>

\* the loop over --sub, run when a template id is set
RECURSIVE SetSubstitutions(_, _)
SetSubstitutions(m, subs) ==
    IF subs = <<>> THEN [fatal |-> FALSE, m |-> m]
    ELSE LET parts == SplitN2(Head(subs))
         IN  IF Len(parts) # 2 THEN [fatal |-> TRUE, m |-> m]
             ELSE SetSubstitutions(
                    [m EXCEPT !.Personalizations[1].Substitutions =
                        (Placeholder(parts[1]) :> parts[2]) @@ @],
                    Tail(subs))

\* send, from SetTemplateID to the end of the --sub loop
ApplyTemplate(m, templateID, subs) ==
    IF templateID # ""
    THEN SetSubstitutions([m EXCEPT !.TemplateID = templateID], subs)
    ELSE [fatal |-> FALSE, m |-> m]

----------------------------------------------------------------------------
(* sendV2: the legacy request *)

\* addressToLists(emails): the addresses and the names; it dereferences
\* every element, so a nil one panics
AddressesOf(emails) == [i \in 1..Len(emails) |-> emails[i].Address]
NamesOf(emails) == [i \in 1..Len(emails) |-> emails[i].Name]
HasNil(emails) == \E i \in 1..Len(emails) : emails[i].nil

\* the values of m.Content of the given type that are not empty
ContentValues(m, type) ==
    SelectSeq(m.Content, LAMBDA c : c.Type = type /\ c.Value # <<>>)

\* the url.Values sendV2 fills: each key with its list of values
V2Values(username, password, m) ==
    LET p == m.Personalizations[1]
        html == ContentValues(m, "text/html")
        text == ContentValues(m, "text/plain")
    IN  [api_user |-> <<username>>, api_key |-> <<password>>,
         subject |-> <<m.Subject>>,
         from |-> <<m.From.Address>>, fromname |-> <<m.From.Name>>,
         to |-> AddressesOf(p.To), toname |-> NamesOf(p.To)]
        @@ (IF Len(p.CC) > 0
            THEN [cc |-> AddressesOf(p.CC), ccname |-> NamesOf(p.CC)]
            ELSE [to |-> AddressesOf(p.To)])
        @@ (IF Len(html) > 0
            THEN [html |-> [i \in 1..Len(html) |-> html[i].Value]]
            ELSE [to |-> AddressesOf(p.To)])
        @@ (IF Len(text) > 0
            THEN [text |-> [i \in 1..Len(text) |-> text[i].Value]]
            ELSE [to |-> AddressesOf(p.To)])

\* fields that write the recipient lists under key + "[]" whatever their
\* length
FormFields_ListKeys(values) ==
    [k \in DOMAIN values |->
        [brackets |-> k \in {"to", "toname", "cc", "ccname"}
                         \/ Len(values[k]) # 1,
         values |-> values[k]]]

\* newMultipPartForm's fields: a key with one value is written under its own
\* name, any other key once per value under key + "[]"
FormFields(values) ==
    [k \in DOMAIN values |->
        [brackets |-> Len(values[k]) # 1, values |-> values[k]]]

\* a form that is multipart only when there are files
NewMultipPartForm_ByAttachments(values, filenames) ==
    IF \E i \in 1..Len(filenames) : ReadFile(filenames[i]).fatal
    THEN [fatal |-> TRUE, request |-> <<>>]
    ELSE [fatal |-> FALSE,
          request |-> [method |-> "POST", url |-> "/api/mail.send.json",
                       body |-> IF Len(filenames) > 0 THEN "multipart"
                                ELSE "urlencoded",
                       files |-> filenames, fields |-> FormFields(values)]]

\* newMultipPartForm(url, values, filenames): a POST whose body is a multipart
\* form of one file part per file name and the fields; an error when a file
\* cannot be opened
NewMultipPartForm(values, filenames) ==
    IF \E i \in 1..Len(filenames) : ReadFile(filenames[i]).fatal
    THEN [fatal |-> TRUE, request |-> <<>>]
    ELSE [fatal |-> FALSE,
          request |-> [method |-> "POST", url |-> "/api/mail.send.json",
                       body |-> "multipart",
                       files |-> filenames, fields |-> FormFields(values)]]

\* the file names sendV2 takes from m.Attachments
AttachmentNames(m) == [i \in 1..Len(m.Attachments) |-> m.Attachments[i].Filename]

----------------------------------------------------------------------------
(* the inputs of a run *)

PlainArg == <<"h", "i">>
HtmlArg == <<"<", "p", ">", "x", "<", "/", "p", ">">>

SeqsUpTo(S, n) == UNION {[1..k -> S] : k \in 0..n}

ArgLists == SeqsUpTo({<<>>, PlainArg, HtmlArg}, MaxArgs)
FromValues == {<<>>, <<"F", " ", "<", "f", ">">>}
Subjects == {"", "subject"}
ToLists == SeqsUpTo({<<>>, <<"a">>, <<"B", " ", "<", "b", ">">>}, MaxTo)
CcLists == SeqsUpTo({<<"C", " ", "<", "c", ">">>}, MaxCc)
HtmlFilenames == {"", "body.html", "empty.html", "missing.html"}
PlainFilenames == {"", "body.txt"}
TemplateIDs == {"", "template"}
Keys == {"", "KEY"}
Users == {"", "user"}
Passwords == {"", "secret"}
EnvKeys == {"", "ENVKEY"}
AttLists == {<<>>, <<"a.pdf">>, <<"missing.pdf">>, <<"a.pdf", "b.bin">>}
SubLists ==
    {<<>>, <<<<"k", "=", "v">>>>, <<<<"k">>>>,
     <<<<"k", "=", "v", "=", "w">>, <<"p", "=">>>>}
Outcomes == {"error", "2xx", "non2xx"}

----------------------------------------------------------------------------
(* one run of send *)

NoLocals ==
    [from |-> NilEmail, toAddresses |-> <<>>, ccAddresses |-> <<>>,
     htmlContent |-> <<>>, plainTextContent |-> <<>>, apiKey |-> ""]

NoNet == [path |-> "", sends |-> 0, result |-> "", request |-> <<>>]

\* the result of createAddress before it is called
NoResult == [fatal |-> FALSE, err |-> "none", email |-> NilEmail]

Init ==
    /\ pc = "start"
    /\ flags \in [args : ArgLists]
    /\ loc = NoLocals
    /\ message = NoMessage
    /\ net = NoNet
    /\ exit = -1
    /\ err = ""
    /\ raw = <<>>
    /\ email = NoResult

\* log.Fatal: the message is logged and the process exits with status 1
Die(kind) ==
    /\ pc' = "fatal"
    /\ err' = kind
    /\ exit' = 1

Goto(next) ==
    /\ pc' = next
    /\ UNCHANGED <<err, exit>>

\* a limit of three positional arguments
TooManyArgs_Three(args) == Len(args) > 3

\* the limit on positional arguments
TooManyArgs(args) == Len(args) > 2

CheckArgs ==
    /\ pc = "start"
    /\ IF TooManyArgs(flags.args) THEN Die("TooManyArguments") ELSE Goto("from")
    /\ UNCHANGED <<flags, loc, message, net, raw, email>>

ReadFrom ==
    /\ pc = "from"
    /\ \E r \in FromValues :
          /\ flags' = flags @@ [from |-> r]
          /\ LET res == createAddress(r)
             IN  IF res.fatal
                 THEN Die(res.err) /\ UNCHANGED loc
                 ELSE Goto("subject") /\ loc' = [loc EXCEPT !.from = res.email]
    /\ UNCHANGED <<message, net, raw, email>>

\* a send that forgets to check the subject
SubjectRejected_Never(subject) == FALSE

SubjectRejected(subject) == subject = ""

ReadSubject ==
    /\ pc = "subject"
    /\ \E s \in Subjects :
          /\ flags' = flags @@ [subject |-> s]
          /\ IF SubjectRejected(s) THEN Die("MissingSubject") ELSE Goto("to")
    /\ UNCHANGED <<loc, message, net, raw, email>>

ReadTo ==
    /\ pc = "to"
    /\ \E l \in ToLists :
          /\ flags' = flags @@ [to |-> l]
          /\ IF Len(l) = 0
             THEN Die("NoRecipient") /\ UNCHANGED loc
             ELSE LET res == ParseAll(l)
                  IN  IF res.fatal
                      THEN Die(res.err) /\ UNCHANGED loc
                      ELSE /\ Goto("cc")
                           /\ loc' = [loc EXCEPT !.toAddresses = res.emails]
    /\ UNCHANGED <<message, net, raw, email>>

ReadCc ==
    /\ pc = "cc"
    /\ \E l \in CcLists :
          /\ flags' = flags @@ [cc |-> l]
          /\ LET res == ParseAll(flags.to)
             IN  IF res.fatal
                 THEN Die(res.err) /\ UNCHANGED loc
                 ELSE /\ Goto("body")
                      /\ loc' = [loc EXCEPT !.ccAddresses = MakeCcAddresses(l),
                                            !.toAddresses = res.emails]
    /\ UNCHANGED <<message, net, raw, email>>

ReadBodies ==
    /\ pc = "body"
    /\ \E h \in HtmlFilenames, p \in PlainFilenames, t \in TemplateIDs :
          /\ flags' = flags @@ [html |-> h, plain |-> p, template |-> t]
          /\ LET b == ChooseBodies(flags.args, h, p, t)
             IN  IF b.fatal
                 THEN Die(BodyError(h, p)) /\ UNCHANGED loc
                 ELSE /\ Goto("creds")
                      /\ loc' = [loc EXCEPT !.htmlContent = b.html,
                                            !.plainTextContent = b.plain]
    /\ UNCHANGED <<message, net, raw, email>>

\* a send that reads SENDGRID_API_KEY whenever --key is absent
ResolveKey_EnvWheneverNoKey(key, username, envKey) ==
    IF key = "" THEN envKey ELSE key

\* the API key send goes on with: --key, or SENDGRID_API_KEY when neither
\* --key nor --user is given
ResolveKey(key, username, envKey) ==
    IF key = "" /\ username = "" THEN envKey ELSE key

\* the one check made on the credentials
CredentialsRejected(key, username, envKey) ==
    key = "" /\ username = "" /\ envKey = ""

ReadCredentials ==
    /\ pc = "creds"
    /\ \E k \in Keys, u \in Users, p \in Passwords, e \in EnvKeys :
          /\ flags' = flags @@ [key |-> k, user |-> u, password |-> p, env |-> e]
          /\ IF CredentialsRejected(k, u, e)
             THEN Die("MissingCredentials") /\ UNCHANGED loc
             ELSE /\ Goto("build")
                  /\ loc' = [loc EXCEPT !.apiKey = ResolveKey(k, u, e)]
    /\ UNCHANGED <<message, net, raw, email>>

BuildMessage ==
    /\ pc = "build"
    /\ message' =
         AddCCs(AddMoreTos(NewSingleEmail(loc.from, flags.subject,
                                          loc.toAddresses[1],
                                          loc.plainTextContent, loc.htmlContent),
                           loc.toAddresses),
                loc.ccAddresses)
    /\ Goto("att")
    /\ UNCHANGED <<flags, loc, net, raw, email>>

ReadAttachments ==
    /\ pc = "att"
    /\ \E l \in AttLists :
          /\ flags' = flags @@ [att |-> l]
          /\ LET res == AddAttachments(message, l)
             IN  /\ message' = res.m
                 /\ IF res.fatal THEN Die("FileRead") ELSE Goto("subs")
    /\ UNCHANGED <<loc, net, raw, email>>

ReadSubstitutions ==
    /\ pc = "subs"
    /\ \E l \in SubLists :
          /\ flags' = flags @@ [sub |-> l]
          /\ LET res == ApplyTemplate(message, flags.template, l)
             IN  /\ message' = res.m
                 /\ IF res.fatal THEN Die("BadSubstitution") ELSE Goto("dispatch")
    /\ UNCHANGED <<loc, net, raw, email>>

\* which request send makes: sendV2's when apiKey is empty
UsesLegacy(apiKey) == apiKey = ""

\* client.Send(message): one POST to /v3/mail/send; an error is logged and
\* send returns
SendModern ==
    /\ pc = "dispatch"
    /\ ~UsesLegacy(loc.apiKey)
    /\ \E r \in Outcomes :
          net' = [path |-> "modern", sends |-> net.sends + 1, result |-> r,
                  request |-> [method |-> "POST", url |-> "/v3/mail/send",
                               body |-> "json", key |-> loc.apiKey]]
    /\ pc' = "done"
    /\ exit' = 0
    /\ UNCHANGED <<flags, loc, message, err, raw, email>>

\* sendV2(username, password, message): the values, the request, one
\* client.Do; an error of either is fatal
SendLegacy ==
    /\ pc = "dispatch"
    /\ UsesLegacy(loc.apiKey)
    /\ IF HasNil(message.Personalizations[1].To)
          \/ HasNil(message.Personalizations[1].CC)
       THEN \* nil pointer dereference in addressToLists
            /\ pc' = "panic"
            /\ exit' = 2
            /\ err' = "NilDereference"
            /\ net' = [net EXCEPT !.path = "legacy"]
       ELSE LET form == NewMultipPartForm(
                            V2Values(flags.user, flags.password, message),
                            AttachmentNames(message))
            IN  IF form.fatal
                THEN Die("RequestBuild") /\ net' = [net EXCEPT !.path = "legacy"]
                ELSE \E r \in Outcomes :
                        /\ net' = [path |-> "legacy", sends |-> net.sends + 1,
                                   result |-> r, request |-> form.request]
                        /\ IF r = "error"
                           THEN Die("Transport")
                           ELSE pc' = "done" /\ exit' = 0 /\ UNCHANGED err
    /\ UNCHANGED <<flags, loc, message, raw, email>>

Next ==
    \/ CheckArgs
    \/ ReadFrom
    \/ ReadSubject
    \/ ReadTo
    \/ ReadCc
    \/ ReadBodies
    \/ ReadCredentials
    \/ BuildMessage
    \/ ReadAttachments
    \/ ReadSubstitutions
    \/ SendModern
    \/ SendLegacy

Spec == Init /\ [][Next]_vars

----------------------------------------------------------------------------
(* createAddress on its own: every raw string up to MaxLen *)

AddrInit ==
    /\ pc = "addr"
    /\ raw \in StringsUpTo(MaxLen)
    /\ email = NoResult
    /\ flags = [args |-> <<>>]
    /\ loc = NoLocals
    /\ message = NoMessage
    /\ net = NoNet
    /\ exit = -1
    /\ err = ""

CreateAddressCall ==
    /\ pc = "addr"
    /\ email' = createAddress(raw)
    /\ pc' = "addr_done"
    /\ UNCHANGED <<raw, flags, loc, message, net, exit, err>>

AddrNext == CreateAddressCall

SpecAddr == AddrInit /\ [][AddrNext]_vars

----------------------------------------------------------------------------
(* the choice of the bodies on its own: send from the point where it
   chooses them, with one or two arguments of texts up to MaxBody *)

MaxBody == 4

BodyAlphabet == {"<", ">", "p", "!"}
BodyTexts == UNION {[1..k -> BodyAlphabet] : k \in 0..MaxBody}

\* the argument that stands beside a text of BodyTexts
OtherArgs == {<<>>, PlainArg, HtmlArg}

BodyArgLists ==
    {<<>>} \cup {<<b>> : b \in BodyTexts}
           \cup {<<b, c>> : b \in BodyTexts, c \in OtherArgs}
           \cup {<<c, b>> : b \in BodyTexts, c \in OtherArgs}

BodiesInit ==
    /\ pc = "body"
    /\ flags \in [args : BodyArgLists]
    /\ loc = NoLocals
    /\ message = NoMessage
    /\ net = NoNet
    /\ exit = -1
    /\ err = ""
    /\ raw = <<>>
    /\ email = NoResult

BodiesNext == ReadBodies

SpecBodies == BodiesInit /\ [][BodiesNext]_vars

----------------
(* Claims about createAddress, checked under SpecAddr *)

returned == pc = "addr_done" /\ ~email.fatal

\* raw with every leading and trailing ' ', '<' and '>' removed, said without
\* the trimming loops: the stretch from the first to the last other character
Core(s) ==
    LET keep == {i \in 1..Len(s) : s[i] \notin {" ", "<", ">"}}
    IN  IF keep = {} THEN <<>>
        ELSE SubSeq(s, CHOOSE i \in keep : \A j \in keep : i <= j,
                       CHOOSE i \in keep : \A j \in keep : j <= i)

NoSeparator(s) == \A i \in 1..(Len(s) - 1) : ~(s[i] = " " /\ s[i + 1] = "<")

\* C7 as stated: for a non-empty raw without " <", createAddress returns
\* display name = address = raw, character for character.
C7_Original ==
    (pc = "addr_done" /\ raw # <<>> /\ NoSeparator(raw))
        => email = Return(NewEmail(raw, raw))

\* C7 (amended): for a non-empty raw without " <", createAddress returns (it
\* never terminates the run) and display name = address = raw with its
\* leading and trailing ' ', '<', '>' characters removed; so the result is
\* raw itself exactly when raw neither begins nor ends with one of them.
C7_TrimmedSingleToken ==
    (pc = "addr_done" /\ raw # <<>> /\ NoSeparator(raw))
        => /\ email = Return(NewEmail(Core(raw), Core(raw)))
           /\ (email.email.Address = raw
                 <=> (raw[1] \notin {" ", "<", ">"}
                      /\ raw[Len(raw)] \notin {" ", "<", ">"}))

\* a raw without " <" that begins or ends with a trimmed character has been
\* converted, and the result differs from raw
C7_Witness ==
    /\ returned /\ NoSeparator(raw) /\ Len(raw) >= 3
    /\ raw[1] = "<" /\ raw[Len(raw)] = ">"
    /\ email.email.Address = SubSeq(raw, 2, Len(raw) - 1)
    /\ email.email.Name = email.email.Address

\* a token of C8: no " <" inside, no ' ', '<', '>' at either end
Token(s) ==
    /\ NoSeparator(s)
    /\ s # <<>> => (s[1] \notin {" ", "<", ">"} /\ s[Len(s)] \notin {" ", "<", ">"})

AllIn(s, ws) == \A i \in 1..Len(s) : s[i] \in ws

\* r is  w1 Name w2 " <" addr ">" tail  cut at i1 <= i2 <= i3 < i4: w1 and w2
\* are made of the characters ws, Name = r[i1+1..i2] and addr = r[i3+3..i4] are
\* tokens, and tail is made of ws or goes on, after some ws, with a further
\* " <" separator
Form(r, i1, i2, i3, i4, ws) ==
    /\ AllIn(SubSeq(r, 1, i1), ws)
    /\ Token(SubSeq(r, i1 + 1, i2))
    /\ AllIn(SubSeq(r, i2 + 1, i3), ws)
    /\ Token(SubSeq(r, i3 + 3, i4))
    /\ \E k \in (i4 + 1)..Len(r) :
          /\ AllIn(SubSeq(r, i4 + 2, k), ws)
          /\ k = Len(r) \/ (k + 2 <= Len(r) /\ r[k + 1] = " " /\ r[k + 2] = "<")

FormHolds(ws) ==
    \A i3 \in 1..(Len(raw) - 2) :
        (raw[i3 + 1] = " " /\ raw[i3 + 2] = "<") =>
            \A i4 \in (i3 + 2)..(Len(raw) - 1) :
                raw[i4 + 1] = ">" =>
                    \A i2 \in 1..i3 : \A i1 \in 0..(i2 - 1) :
                        Form(raw, i1, i2, i3, i4, ws)
                            => email = Return(NewEmail(SubSeq(raw, i1 + 1, i2),
                                                       SubSeq(raw, i3 + 3, i4)))

\* C8 as stated: for raw = Name " <" addr ">" with any amount of whitespace
\* (blanks, tabs) before Name, between the parts or after the bracket,
\* createAddress returns display name = Name and address = addr.
C8_Original == pc = "addr_done" => FormHolds({" ", "\t"})

\* C8 (amended): the same with "whitespace" read as space characters only and
\* Name non-empty: only ' ' (with '<' and '>') is trimmed, a tab stays in the
\* token; tokens after a further " <" separator are ignored.
C8_NameAndAddress == pc = "addr_done" => FormHolds({" "})

\* "a  <aa>" with two blanks between the parts: name a, address aa
C8_Witness ==
    /\ returned
    /\ raw = <<"a", " ", " ", "<", "a", "a", ">">>
    /\ email.email = NewEmail(<<"a">>, <<"a", "a">>)

\* C9: createAddress either terminates the run or returns an Email whose
\* address is not empty.
C9_AddressNonEmpty ==
    pc = "addr_done" => (email.fatal \/ email.email.Address # <<>>)

----------------------------------------------------------------------------
(* Claims about a run of send, checked under Spec *)

\* the flag has been read
Has(f) == f \in DOMAIN flags

Readable(filename) == filename \in DOMAIN Files

\* the address createAddress should give for a raw "Name <addr>" or "addr"
\* value of the model's inputs
Parsed(r) == createAddress(r).email
ParsedAll(raws) == [i \in 1..Len(raws) |-> Parsed(raws[i])]

\* C1: a run that reaches dispatch has built a message with exactly one
\* personalization, whose To list is the parsed --to values in flag order and
\* whose CC list is the parsed --cc values in flag order.
C1_Recipients ==
    pc = "dispatch" =>
        /\ Len(message.Personalizations) = 1
        /\ message.Personalizations[1].To = ParsedAll(flags.to)
        /\ message.Personalizations[1].CC = ParsedAll(flags.cc)

\* the validations, each on the flags as given, once send has made it
RawRejected(r) == r = <<>> \/ (Len(r) >= 2 /\ r[1] = " " /\ r[2] = "<")

ArgsInvalid == pc # "start" /\ Len(flags.args) > 2
FromInvalid == Has("from") /\ RawRejected(flags.from)
SubjectInvalid == Has("subject") /\ flags.subject = ""
ToInvalid ==
    Has("to") /\ (flags.to = <<>> \/ \E i \in 1..Len(flags.to) : RawRejected(flags.to[i]))
BodyFileInvalid ==
    Has("html") /\ \/ (flags.html # "" /\ ~Readable(flags.html))
                   \/ (flags.plain # "" /\ ~Readable(flags.plain))
BodyMissing ==
    /\ Has("html") /\ flags.html = "" /\ flags.plain = ""
    /\ flags.args = <<>> /\ flags.template = ""
CredentialsMissing ==
    Has("key") /\ flags.key = "" /\ flags.user = "" /\ flags.env = ""
AttachmentInvalid == Has("att") /\ \E i \in 1..Len(flags.att) : ~Readable(flags.att[i])
SubstitutionInvalid ==
    /\ Has("sub") /\ flags.template # ""
    /\ \E i \in 1..Len(flags.sub) : \A j \in 1..Len(flags.sub[i]) : flags.sub[i][j] # "="

ValidationFailed ==
    \/ ArgsInvalid \/ FromInvalid \/ SubjectInvalid \/ ToInvalid
    \/ BodyFileInvalid \/ BodyMissing \/ CredentialsMissing
    \/ AttachmentInvalid \/ SubstitutionInvalid

ValidationErrors ==
    {"TooManyArguments", "MissingAddress", "InvalidAddress", "MissingSubject",
     "NoRecipient", "MissingBody", "FileRead", "BadSubstitution",
     "MissingCredentials", "RequestBuild"}

\* C2: once a validation of send has failed, the run has terminated by
\* log.Fatal (exit status 1), no network call has been made, and no step
\* follows; and every run that ended with a validation error made no call.
C2_ValidationBeforeSend ==
    /\ ValidationFailed =>
          (pc = "fatal" /\ err \in ValidationErrors /\ exit = 1
           /\ net.sends = 0 /\ ~ENABLED Next)
    /\ (pc = "fatal" /\ err \in ValidationErrors) => (net.sends = 0 /\ ~ENABLED Next)

\* a run that got as far as the substitutions, with valid credentials, and
\* was ended there
C2_Witness ==
    /\ pc = "fatal" /\ err = "BadSubstitution"
    /\ SubstitutionInvalid /\ flags.key # ""
    /\ net.sends = 0 /\ net.path = ""

\* C3: exit status 0 only after a dispatch without transport error; a
\* validation failure or a transport failure, on either path, ends the run
\* by fatal termination with a non-zero status.
C3_ExitStatus ==
    /\ exit = 0 => (net.sends = 1 /\ net.result # "error")
    /\ net.result = "error" => (pc = "fatal" /\ exit > 0)
    /\ ValidationFailed => (pc = "fatal" /\ exit > 0)

Ended == pc \in {"done", "fatal", "panic"}

\* C4: at most one network send per run, exactly one in a run that passed
\* all validation; the two paths exclude each other.
C4_ExactlyOneSend ==
    /\ net.sends <= 1
    /\ (Ended /\ ~(pc = "fatal" /\ err \in ValidationErrors)) => net.sends = 1
    /\ net.sends = 1 => net.request.url =
          (IF net.path = "modern" THEN "/v3/mail/send" ELSE "/api/mail.send.json")

\* C5 as stated: the key is --key or, whenever --key is absent,
\* SENDGRID_API_KEY; modern path iff that key is non-empty.
C5_Original ==
    net.path # "" =>
        LET k == IF flags.key # "" THEN flags.key ELSE flags.env
        IN  /\ k # "" => net.path = "modern"
            /\ net.path = "legacy" => k = ""

\* C5 (amended): the key is --key or, when both --key and --user are absent,
\* SENDGRID_API_KEY (the environment is not consulted when --user is given);
\* the modern path is used iff that key is non-empty, whether or not --user
\* and --password are given with --key, and the legacy path only otherwise.
C5_PathByKey ==
    net.path # "" =>
        LET k == IF flags.key # "" THEN flags.key
                 ELSE IF flags.user = "" THEN flags.env ELSE ""
        IN  /\ net.path = "modern" <=> k # ""
            /\ net.path = "legacy" <=> k = ""
            /\ net.path = "modern" => net.request.key = k

\* a legacy send although SENDGRID_API_KEY is set: --user was given
C5_Witness ==
    /\ net.path = "legacy" /\ net.sends = 1
    /\ flags.key = "" /\ flags.env # "" /\ flags.user # ""

\* C6: without an API key (--key, SENDGRID_API_KEY) and without both user
\* name and password the run ends with the missing-credentials error and
\* sends nothing; the legacy request never carries an empty api_user or
\* api_key.
C6_Credentials ==
    /\ (Has("key") /\ flags.key = "" /\ flags.env = ""
        /\ ~(flags.user # "" /\ flags.password # ""))
          => (pc = "fatal" /\ err = "MissingCredentials" /\ net.sends = 0)
    /\ (net.path = "legacy" /\ net.sends > 0)
          => (net.request.fields.api_user.values # <<"">>
              /\ net.request.fields.api_key.values # <<"">>)

\* C10: with --html or --plain (files that can be read), html is the content
\* of the --html file, or empty without one; plain is the content of the
\* --plain file, or without one the HTML-to-text conversion of html; neither
\* depends on the positional arguments or the template id; these are the
\* bodies the message is built with.
C10_BodyFiles ==
    (/\ Has("html") /\ (flags.html # "" \/ flags.plain # "")
     /\ (flags.html # "" => Readable(flags.html))
     /\ (flags.plain # "" => Readable(flags.plain)))
    => LET html == IF flags.html # "" THEN Files[flags.html] ELSE <<>>
           plain == IF flags.plain # "" THEN Files[flags.plain]
                    ELSE html2text(html)
       IN  /\ loc.htmlContent = html
           /\ loc.plainTextContent = plain
           /\ message.built =>
                message.Content = <<NewContent("text/plain", plain),
                                    NewContent("text/html", html)>>

\* an --html file alone, beside two positional arguments and a template id:
\* the plain body is the text of the file's HTML
C10_Witness ==
    /\ pc = "done"
    /\ flags.html = "body.html" /\ flags.plain = ""
    /\ flags.args = <<PlainArg, HtmlArg>> /\ flags.template # ""
    /\ loc.htmlContent = HtmlFileText
    /\ loc.plainTextContent = <<"y">>

----------------------------------------------------------------------------
(* Claims about the choice of the bodies, checked under SpecBodies *)

\* the HTML pattern in words: a '<', then a word character, then a '>'
\* somewhere after it (the characters up to the first such '>' are the
\* "non-'>' characters")
HasTag(b) ==
    \E i \in 1..(Len(b) - 2) :
        /\ b[i] = "<"
        /\ b[i + 1] \in WordChars
        /\ \E j \in (i + 2)..Len(b) : b[j] = ">"

TagArgs == {i \in 1..Len(flags.args) : HasTag(flags.args[i])}

NoBodyFile == Has("html") /\ flags.html = "" /\ flags.plain = ""

BodiesChosen == pc \in {"creds", "fatal"} /\ Has("html")

\* C11: with no body files and some positional argument matching the HTML
\* pattern, the run goes on with html = the first matching argument; with one
\* argument plain is the HTML-to-text conversion of it; with two arguments
\* plain is the argument at the other index if it is non-empty, and empty
\* otherwise.
C11_HtmlArgument ==
    (BodiesChosen /\ NoBodyFile /\ TagArgs # {}) =>
        LET a == flags.args
            first == CHOOSE i \in TagArgs : \A j \in TagArgs : i <= j
        IN  /\ pc = "creds"
            /\ loc.htmlContent = a[first]
            /\ Len(a) = 1 => loc.plainTextContent = html2text(a[1])
            /\ Len(a) = 2 =>
                   loc.plainTextContent =
                       IF a[3 - first] # <<>> THEN a[3 - first] ELSE <<>>

C11_Witness ==
    /\ pc = "creds" /\ NoBodyFile
    /\ flags.args = <<PlainArg, <<"<", "p", "!", ">">> >>
    /\ loc.htmlContent = <<"<", "p", "!", ">">>
    /\ loc.plainTextContent = PlainArg

PlainArgsOnly ==
    /\ BodiesChosen /\ NoBodyFile
    /\ Len(flags.args) \in {1, 2}
    /\ TagArgs = {}

\* C12 as stated: with no body files and one or two positional arguments none
\* of which matches the HTML pattern, the result is html = "" and
\* plain = positional_args[0].
C12_Original ==
    PlainArgsOnly =>
        /\ pc = "creds"
        /\ loc.htmlContent = <<>>
        /\ loc.plainTextContent = flags.args[1]

\* C12 (amended): with no body files and one or two positional arguments none
\* of which matches the HTML pattern, a non-empty first argument gives
\* html = "" and plain = that argument, whatever the second argument is; an
\* empty first argument ends the run with the missing-body error, even when
\* the second argument is a non-empty text.
C12_PlainArgument ==
    PlainArgsOnly =>
        IF flags.args[1] # <<>>
        THEN /\ pc = "creds"
             /\ loc.htmlContent = <<>>
             /\ loc.plainTextContent = flags.args[1]
        ELSE pc = "fatal" /\ err = "MissingBody"

C12_Witness ==
    /\ pc = "creds" /\ NoBodyFile
    /\ flags.args = << <<"p", ">">>, PlainArg >>
    /\ loc.htmlContent = <<>>
    /\ loc.plainTextContent = <<"p", ">">>

MissingBodyError == pc = "fatal" /\ err = "MissingBody"

\* C13 as stated: a run fails with the missing-body error if and only if
\* there are no positional arguments, no --html/--plain body file and no
\* template id.
C13_Original ==
    BodiesChosen =>
        (MissingBodyError <=>
            (Len(flags.args) = 0 /\ NoBodyFile /\ flags.template = ""))

\* C13 (amended): a run fails with the missing-body error if and only if no
\* --html/--plain body file is given and either there are no positional
\* arguments and no template id, or there are positional arguments, none
\* matches the HTML pattern and the first is empty (with or without a
\* template id).
C13_MissingBody ==
    BodiesChosen =>
        (MissingBodyError <=>
            /\ NoBodyFile
            /\ \/ Len(flags.args) = 0 /\ flags.template = ""
               \/ Len(flags.args) > 0 /\ TagArgs = {} /\ flags.args[1] = <<>>)

C13_Witness ==
    /\ MissingBodyError /\ NoBodyFile
    /\ flags.template # ""
    /\ flags.args = << <<>>, PlainArg >>

----------------------------------------------------------------------------
(* Claims about send, checked under Spec (continued) *)

\* C14: a run with more than two positional arguments ends with the
\* too-many-arguments error as its first step: no flag has been read, no
\* address parsed, no file read, no message built and no request made; a run
\* with 0, 1 or 2 positional arguments never ends with that error.
C14_TooManyArguments ==
    /\ (pc # "start" /\ Len(flags.args) > 2) =>
           /\ pc = "fatal" /\ err = "TooManyArguments" /\ exit = 1
           /\ DOMAIN flags = {"args"}
           /\ loc = NoLocals
           /\ message = NoMessage
           /\ net = NoNet
    /\ err = "TooManyArguments" => Len(flags.args) > 2

C14_Witness ==
    /\ pc = "fatal" /\ err = "TooManyArguments"
    /\ flags.args = <<HtmlArg, PlainArg, PlainArg>>
    /\ net.sends = 0

AllArgsEmpty == \A i \in 1..Len(flags.args) : flags.args[i] = <<>>

\* the bodies are the placeholder and the empty text, in send's variables
\* and in the message once it is built
PlaceholderBodies ==
    /\ loc.htmlContent = DummyContent
    /\ loc.plainTextContent = <<>>
    /\ message.built =>
           message.Content = <<NewContent("text/plain", <<>>),
                               NewContent("text/html", DummyContent)>>

\* C15 as stated: with a template id, no body file and no non-empty
\* positional content the run does not fail and the message is built with
\* html = the placeholder and an empty plain body; the placeholder is used in
\* no other situation.
C15_Original ==
    Has("html") =>
        /\ (flags.template # "" /\ NoBodyFile /\ AllArgsEmpty) =>
               (err # "MissingBody" /\ PlaceholderBodies)
        /\ loc.htmlContent = DummyContent =>
               (flags.template # "" /\ NoBodyFile /\ AllArgsEmpty)

\* C15 (amended): with a template id, no body file and no positional
\* argument the run does not fail for its body and the message is built with
\* html = the placeholder and an empty plain body; the placeholder is used in
\* no other situation: with a template id, no body file and positional
\* arguments that are all empty the run ends with the missing-body error.
C15_Placeholder ==
    Has("html") =>
        /\ (flags.template # "" /\ NoBodyFile /\ Len(flags.args) = 0) =>
               (err # "MissingBody" /\ PlaceholderBodies)
        /\ loc.htmlContent = DummyContent =>
               (flags.template # "" /\ NoBodyFile /\ Len(flags.args) = 0)
        /\ (flags.template # "" /\ NoBodyFile /\ Len(flags.args) > 0
                /\ AllArgsEmpty) => MissingBodyError

C15_Witness ==
    /\ pc = "done"
    /\ flags.template # "" /\ NoBodyFile /\ flags.args = <<>>
    /\ message.Content[2] = NewContent("text/html", DummyContent)
    /\ message.Content[1].Value = <<>>

ReachedDispatch == pc \in {"dispatch", "done", "panic"} \/ net.path # ""

\* C16: in every run that reaches dispatch without a template id, html and
\* plain are not both empty, and so the message carries at least one content
\* part with a non-empty value.
C16_SomeContent ==
    (ReachedDispatch /\ flags.template = "") =>
        /\ loc.htmlContent # <<>> \/ loc.plainTextContent # <<>>
        /\ \E i \in 1..Len(message.Content) : message.Content[i].Value # <<>>

NonEmptyValue(c) == c.Value # <<>>

SentModern == net.path = "modern" /\ net.sends > 0

\* C17: on the modern path the content parts of the message sent are
\* [plain, html] with every empty-valued part removed: no part with an empty
\* value is sent.
C17_ModernContent ==
    SentModern =>
        /\ message.Content =
               SelectSeq(<<NewContent("text/plain", loc.plainTextContent),
                           NewContent("text/html", loc.htmlContent)>>,
                         NonEmptyValue)
        /\ \A i \in 1..Len(message.Content) : message.Content[i].Value # <<>>

HasEq(s) == \E i \in 1..Len(s) : s[i] = "="

\* s is key, '=', value, with no '=' in key
IsKeyValue(s, key, value) ==
    /\ s = key \o <<"=">> \o value
    /\ ~HasEq(key)

\* the key and the value of a --sub value that has an '='
KeyOf(s) == CHOOSE k \in {SubSeq(s, 1, n) : n \in 0..Len(s)} :
                \E n \in 1..Len(s) : IsKeyValue(s, k, SubSeq(s, n + 1, Len(s)))
ValueOf(s) == SubSeq(s, Len(KeyOf(s)) + 2, Len(s))

Wrapped(key) == <<"[", "%">> \o key \o <<"%", "]">>

SubsRead == Has("sub")

\* C18: with a template id, each --sub value key=value, cut at the first '=',
\* maps "[%key%]" to value in the single personalization, and a --sub value
\* without '=' ends the run before any send; without a template id the
\* message has no template id and no substitutions and the --sub values are
\* not looked at.
C18_Substitutions ==
    SubsRead =>
        LET subs == flags.sub
            p == message.Personalizations
            all == \A i \in 1..Len(subs) : HasEq(subs[i])
        IN  /\ Len(p) = 1
            /\ (flags.template # "" /\ all) =>
                   /\ err # "BadSubstitution"
                   /\ message.TemplateID = flags.template
                   /\ DOMAIN p[1].Substitutions =
                          {Wrapped(KeyOf(subs[i])) : i \in 1..Len(subs)}
                   /\ \A i \in 1..Len(subs) :
                          p[1].Substitutions[Wrapped(KeyOf(subs[i]))]
                              = ValueOf(subs[i])
            /\ (flags.template # "" /\ ~all) =>
                   /\ pc = "fatal" /\ err = "BadSubstitution"
                   /\ net.sends = 0
            /\ flags.template = "" =>
                   /\ err # "BadSubstitution"
                   /\ message.TemplateID = ""
                   /\ DOMAIN p[1].Substitutions = {}

C18_Witness ==
    /\ pc = "done" /\ net.sends = 1
    /\ flags.template # ""
    /\ flags.sub = << <<"k", "=", "v", "=", "w">>, <<"p", "=">> >>
    /\ message.Personalizations[1].Substitutions[<<"[", "%", "k", "%", "]">>]
           = <<"v", "=", "w">>
    /\ message.Personalizations[1].Substitutions[<<"[", "%", "p", "%", "]">>]
           = <<>>

SentLegacy == net.path = "legacy" /\ net.sends > 0

\* the field named key is sent once, under its own name, with value v
SentOnce(key, v) ==
    /\ key \in DOMAIN net.request.fields
    /\ net.request.fields[key] = [brackets |-> FALSE, values |-> <<v>>]

\* the fields key[] are sent, one per value of vs and in that order
SentAsList(key, vs) ==
    /\ key \in DOMAIN net.request.fields
    /\ net.request.fields[key] = [brackets |-> TRUE, values |-> vs]

\* the addresses and the display names of the --to values, in flag order
ToAddressList == [i \in 1..Len(flags.to) |-> createAddress(flags.to[i]).email.Address]
ToNameList == [i \in 1..Len(flags.to) |-> createAddress(flags.to[i]).email.Name]

\* what the legacy request carries beside the recipients: html and text
\* exactly when the body is not empty, and subject, from, fromname, api_user
\* and api_key once each
LegacyOtherFields ==
    /\ IF loc.htmlContent # <<>> THEN SentOnce("html", loc.htmlContent)
       ELSE "html" \notin DOMAIN net.request.fields
    /\ IF loc.plainTextContent # <<>> THEN SentOnce("text", loc.plainTextContent)
       ELSE "text" \notin DOMAIN net.request.fields
    /\ SentOnce("subject", flags.subject)
    /\ SentOnce("from", loc.from.Address)
    /\ SentOnce("fromname", loc.from.Name)
    /\ SentOnce("api_user", flags.user)
    /\ SentOnce("api_key", flags.password)

\* C19 as stated: a legacy request carries the recipients under to[] and
\* toname[] for any number n >= 1 of them, n = 1 included, the i-th toname[]
\* being the display name of the i-th to[] address in --to order (and the CC
\* under cc[] and ccname[]), with the other fields as in LegacyOtherFields.
C19_Original ==
    SentLegacy =>
        /\ SentAsList("to", ToAddressList)
        /\ SentAsList("toname", ToNameList)
        /\ Len(flags.cc) > 0 =>
               /\ "cc" \in DOMAIN net.request.fields
               /\ net.request.fields.cc.brackets
               /\ net.request.fields.ccname.brackets
        /\ LegacyOtherFields

\* C19 (amended): a legacy request carries n >= 2 recipients under to[] and
\* toname[], the i-th toname[] being the display name of the i-th to[]
\* address in --to order, and a single recipient under to and toname (and the
\* CC, when --cc values are given, under cc[] and ccname[], or cc and ccname
\* for a single one); the other fields are as in LegacyOtherFields.
C19_LegacyFields ==
    SentLegacy =>
        /\ Len(flags.to) >= 1
        /\ IF Len(flags.to) = 1
           THEN /\ SentOnce("to", ToAddressList[1])
                /\ SentOnce("toname", ToNameList[1])
           ELSE /\ SentAsList("to", ToAddressList)
                /\ SentAsList("toname", ToNameList)
        /\ Len(flags.cc) > 0 =>
               /\ {"cc", "ccname"} \subseteq DOMAIN net.request.fields
               /\ net.request.fields.cc.brackets <=> Len(flags.cc) >= 2
               /\ net.request.fields.ccname.brackets <=> Len(flags.cc) >= 2
        /\ LegacyOtherFields

C19_Witness ==
    /\ SentLegacy /\ pc = "done"
    /\ flags.to = << <<"B", " ", "<", "b", ">">> >>
    /\ loc.htmlContent # <<>> /\ loc.plainTextContent = <<>>
    /\ net.request.fields.to = [brackets |-> FALSE, values |-> << <<"b">> >>]
    /\ net.request.fields.toname = [brackets |-> FALSE, values |-> << <<"B">> >>]
    /\ "text" \notin DOMAIN net.request.fields

\* the request is a POST to /api/mail.send.json with one file part per
\* attachment, in order, and the form fields
LegacyPostParts ==
    /\ net.request.method = "POST"
    /\ net.request.url = "/api/mail.send.json"
    /\ Len(net.request.files) = Len(message.Attachments)
    /\ net.request.files = flags.att
    /\ {"api_user", "api_key", "subject", "from", "fromname", "to", "toname"}
           \subseteq DOMAIN net.request.fields

\* C20 as stated: a legacy request is encoded as multipart/form-data if and
\* only if the message has at least one attachment, with one file part per
\* attachment plus the form fields; with no attachments it is an
\* application/x-www-form-urlencoded POST to /api/mail.send.json.
C20_Original ==
    SentLegacy =>
        /\ LegacyPostParts
        /\ net.request.body = "multipart" <=> Len(message.Attachments) > 0
        /\ Len(message.Attachments) = 0 => net.request.body = "urlencoded"

\* C20 (amended): a legacy request is always encoded as multipart/form-data,
\* with or without attachments: a POST to /api/mail.send.json with one file
\* part per attachment (none when there is no attachment) plus the form
\* fields.
C20_AlwaysMultipart ==
    SentLegacy =>
        /\ LegacyPostParts
        /\ net.request.body = "multipart"

C20_Witness ==
    /\ SentLegacy /\ pc = "done"
    /\ flags.att = <<>> /\ message.Attachments = <<>>
    /\ net.request.body = "multipart"
    /\ net.request.files = <<>>

\* the extension of each attachment file name of the model
ExtensionOf(filename) ==
    CASE filename \in {"a.pdf", "missing.pdf"} -> ".pdf"
      [] filename = "b.bin" -> ".bin"
      [] OTHER -> ""

AttachmentsRead == Has("att")

AllReadable(filenames) ==
    \A i \in 1..Len(filenames) : filenames[i] \in DOMAIN Files

\* C21: for --att values f1..fk that can all be read the message has exactly
\* k attachments in flag order, the i-th with file name fi, disposition
\* "attachment", content base64 of the bytes of fi and the MIME type of fi's
\* extension, which is not empty for a known extension such as .pdf; an
\* unreadable file ends the run before any send.
C21_Attachments ==
    AttachmentsRead =>
        LET f == flags.att
            a == message.Attachments
        IN  IF AllReadable(f)
            THEN /\ Len(a) = Len(f)
                 /\ \A i \in 1..Len(f) :
                        /\ a[i].Filename = f[i]
                        /\ a[i].Disposition = "attachment"
                        /\ a[i].Content = Base64(Files[f[i]])
                        /\ ExtensionOf(f[i]) \in DOMAIN MimeTypes =>
                               /\ a[i].Type = MimeTypes[ExtensionOf(f[i])]
                               /\ a[i].Type # ""
            ELSE /\ pc = "fatal" /\ err = "FileRead"
                 /\ net.sends = 0

----------------------------------------------------------------------------
(* Claims about messageBodies, checked under SpecBodies (continued) *)

\* the runs in which send calls messageBodies: no body file, and either no
\* template id or some positional argument
MessageBodiesCalled ==
    /\ BodiesChosen /\ NoBodyFile
    /\ flags.template = "" \/ Len(flags.args) > 0

\* C22: when messageBodies returns, one of the two bodies is not empty and a
\* non-empty html matches the HTML pattern; it ends the run exactly when args
\* is empty, or no argument matches the HTML pattern and args[0] is empty,
\* whatever args[1] is.
C22_MessageBodies ==
    MessageBodiesCalled =>
        /\ pc = "fatal" <=>
               \/ Len(flags.args) = 0
               \/ TagArgs = {} /\ flags.args[1] = <<>>
        /\ pc = "fatal" => err = "MissingBody"
        /\ pc = "creds" =>
               /\ loc.htmlContent # <<>> \/ loc.plainTextContent # <<>>
               /\ loc.htmlContent # <<>> => HasTag(loc.htmlContent)

C22_Witness ==
    /\ MessageBodiesCalled
    /\ flags.template = ""
    /\ flags.args = << <<>>, <<"p", "<", "!", ">">> >>
    /\ pc = "fatal" /\ err = "MissingBody"

====
